---- MODULE Spec2Model ----
(***************************************************************************)
(* Model of pymazda.connection.Connection: the session state (enc_key,     *)
(* sign_key, access_token, access_token_expiration_ts), the request        *)
(* pipeline api_request / __api_request_retry / __send_api_request, the    *)
(* key retrieval __retrieve_keys and the login handshake.                  *)
(*                                                                         *)
(* A step of the model is what one coroutine runs between two awaits: the  *)
(* awaits on the transport are the only suspension points.  The call       *)
(* chain of one caller is kept as a stack of __api_request_retry frames:   *)
(* frame i+1 is the checkVersion request that __retrieve_keys issued on    *)
(* behalf of frame i.  A tail call of __api_request_retry (lines 131, 135) *)
(* is the same frame with num_retries + 1.  No handler of the module       *)
(* catches an exception raised outside line 127, so every other exception  *)
(* unwinds the whole chain and reaches the caller.                         *)
(*                                                                         *)
(* The exception classes of pymazda.exceptions are taken to be unrelated   *)
(* classes: an except clause catches exactly the class it names.           *)
(***************************************************************************)
EXTENDS Integers, Sequences, FiniteSets, TLC

VARIABLES enc_key, sign_key, access_token, access_token_expiration_ts,
          now, task, ev, rejected

vars == <<enc_key, sign_key, access_token, access_token_expiration_ts,
          now, task, ev, rejected>>

---------------------------------------------------------------------------
(* Bounds of the model *)

MaxDepth == 7     \* frames of one caller's call chain
MaxTime == 1      \* the clock runs 0 .. MaxTime
MaxKeys == 2      \* key pairs the server hands out
MaxTokens == 2    \* access tokens the server hands out

(* Program constant, line 25 *)
MAX_RETRIES == 4

Tasks == {1, 2}
SeqTasks == {1}

---------------------------------------------------------------------------
(* Values *)

None == <<>>                      \* Python None
EmptyHeader == <<"">>             \* the "" of line 161
AppCodeKey == <<"appcode">>       \* __get_decryption_key_from_app_code
EncKeyOf(k) == <<"enc", k>>
SignKeyOf(k) == <<"sign", k>>
TokenOf(i) == <<"tok", i>>
Ts(n) == <<"ts", n>>              \* a stored timestamp
TsValue(x) == x[2]

CHECK_VERSION == "service/checkVersion"
OTHER_URI == "vehicle/getStatus"
Uris == {CHECK_VERSION, OTHER_URI}
Methods == {"GET", "POST"}

KeyObject(k) == [encKey |-> EncKeyOf(k), signKey |-> SignKeyOf(k)]
PartialKeyObject(k) == [encKey |-> EncKeyOf(k)]   \* a JSON without "signKey"
Missing == <<"missing">>          \* a field the JSON does not have
Data == [result |-> "data"]       \* the JSON result of a business call

ServerKeys == {AppCodeKey} \cup {EncKeyOf(k) : k \in 1..MaxKeys}
ErrorCodes == {600001, 600002, 500}
LoginStatuses == {"OK", "INVALID_CREDENTIAL", "USER_LOCKED", "ERROR"}
ExpValues == 0..(MaxTime + 1)

(* What the main API host can answer to a request for uri. *)
Responses(uri) ==
    [state : {"S"},
     payload : [key : ServerKeys,
                content : IF uri = CHECK_VERSION
                          THEN {KeyObject(k) : k \in 1..MaxKeys}
                          ELSE {Data}],
     errorCode : {0}]
    \cup [state : {"E"}, payload : {None}, errorCode : ErrorCodes]

---------------------------------------------------------------------------
(* State after construction *)

NoPayload == [key |-> None, content |-> None]

(* A caller's record: st, req, stack and lpc are its position (req the
   call it made, stack its chain of __api_request_retry frames, lpc the
   await of login() it is suspended at), result and retval what its call
   gave, and the rest is the history of the call: resps the answers to the
   caller's own request, rootSent / cvSent / usherSent the requests sent
   for the caller's URI, for checkVersion by __retrieve_keys and to the
   authentication host, rkCalls / loginCalls the invocations of
   __retrieve_keys and login, recoveries / recOK the recoveries started by
   the handlers of lines 128-135 and those that returned, sentHdr the
   access-token header of the last request sent for the caller's URI,
   loginTok the token of the last login, first* their values when the
   first request for the caller's URI was sent, rk1 / lg1 the values of
   rkCalls / loginCalls when its first answer arrived, lastPayload the
   payload of the last state "S" answer, keysAbsentAtIssue whether a key
   was absent when the call was made, sentEnc / sentSign the keys that
   encrypted and signed the last request for the caller's URI,
   sentTokValid whether the stored token was set and not expired when it
   was sent, atResp the four session fields when the last answer to the
   caller's request arrived, decKey the key that decrypted it, overwritten
   whether another caller changed the stored keys while the caller's
   request was in flight. *)
NoRequest ==
    [op |-> "none", method |-> "none", uri |-> "none", qb |-> FALSE,
     needs_keys |-> FALSE, needs_auth |-> FALSE]

IdleTask ==
    [st |-> "idle", req |-> NoRequest, stack |-> <<>>, lpc |-> "none",
     result |-> "none", retval |-> None,
     resps |-> <<>>, rootSent |-> 0, cvSent |-> 0, usherSent |-> 0,
     rkCalls |-> 0, loginCalls |-> 0, recoveries |-> 0, recOK |-> 0,
     expiredAtIssue |-> FALSE, sentHdr |-> None, loginTok |-> None,
     firstLogins |-> 0, firstHdr |-> None, firstLoginTok |-> None,
     rk1 |-> 0, lg1 |-> 0, lastPayload |-> NoPayload,
     keysAbsentAtIssue |-> FALSE, sentEnc |-> None, sentSign |-> None,
     sentTokValid |-> FALSE, atResp |-> None, decKey |-> None,
     overwritten |-> FALSE]

(* ev: the last step a caller took, and what the transport delivered to it;
   rejected: the main API host has answered 600001 to a request encrypted
   and signed with the stored key pair, and no key has been stored since *)
NoEvent ==
    [t |-> 0, kind |-> "none", state |-> "none", errorCode |-> 0,
     status |-> "none", depth |-> 0]

Init ==
    /\ enc_key = None
    /\ sign_key = None
    /\ access_token = None
    /\ access_token_expiration_ts = None
    /\ now = 0
    /\ task = [t \in Tasks |-> IdleTask]
    /\ ev = NoEvent
    /\ rejected = FALSE

---------------------------------------------------------------------------
(* Pure parts of the code *)

(* line 115 *)
RetryExceeded(num_retries) == num_retries > MAX_RETRIES

(* a line 193 with "and" for "or" *)
KeysAbsent_BothMissing(enc, sign) == enc = None /\ sign = None

(* line 193 *)
KeysAbsent(enc, sign) == enc = None \/ sign = None

(* a line 197 that forgets the expiration *)
TokenInvalid_IgnoringExpiration(tok, exp, time) == tok = None \/ exp = None

(* a line 197 with "<" for "<=" *)
TokenInvalid_StrictlyPast(tok, exp, time) ==
    tok = None \/ exp = None \/ TsValue(exp) < time

(* line 197: time.time() is the clock now *)
TokenInvalid(tok, exp, time) ==
    tok = None \/ exp = None \/ TsValue(exp) <= time

(* line 123: " attempt #" + (num_retries + 1) adds an int to a str, which
   raises TypeError; the expression is evaluated only when num_retries > 0 *)
RetryMessageRaises(num_retries) == num_retries > 0

(* line 169 *)
IsCheckVersion(uri) == uri = CHECK_VERSION

(* lines 141-151 alone: only the encryption of a non-empty query or body
   looks for a key, the signing of lines 168-173 does not *)
BuildRaisesMissingKey_WhenEncrypting(f, enc, sign) == f.qb /\ enc = None

(* lines 143-151 and 169-174 with 73-90: building the request raises
   MazdaException("Missing ... key") when a non-empty query or body is to be
   encrypted without enc_key, or when a GET or POST to a URI other than
   checkVersion is to be signed without sign_key or enc_key *)
BuildRaisesMissingKey(f, enc, sign) ==
    \/ f.qb /\ enc = None
    \/ /\ ~IsCheckVersion(f.uri)
       /\ f.method \in {"GET", "POST"}
       /\ (sign = None \/ enc = None)

(* line 161 without the conditional *)
AccessTokenHeader_Always(needs_auth, tok) == tok

(* line 161 *)
AccessTokenHeader(needs_auth, tok) == IF needs_auth THEN tok ELSE EmptyHeader

(* decryptAES128CBCBufferToString + json.loads: the plaintext comes back
   only under the key the payload was encrypted with; under another key
   the unpadding, the decoding or the parsing raises (ok = FALSE) *)
Decrypt(payload, key) ==
    IF payload.key = key
    THEN [ok |-> TRUE, value |-> payload.content]
    ELSE [ok |-> FALSE, value |-> None]

(* lines 92-96 *)
DecryptPayloadUsingAppCode(payload) == Decrypt(payload, AppCodeKey)

(* lines 98-104 decrypting with the key of lines 92-96 *)
DecryptPayloadUsingKey_AppCode(payload, enc) == Decrypt(payload, AppCodeKey)

(* lines 98-104, after the missing-key guard *)
DecryptPayloadUsingKey(payload, enc) == Decrypt(payload, enc)

(* lines 185-190 with the else branch taken for a key rejection *)
Classify_UnknownAsRejection(errorCode) ==
    IF errorCode = 600002 THEN "MazdaTokenExpiredException"
    ELSE "MazdaAPIEncryptionException"

(* lines 185-190 with the two error codes exchanged *)
Classify_Swapped(errorCode) ==
    IF errorCode = 600002 THEN "MazdaAPIEncryptionException"
    ELSE IF errorCode = 600001 THEN "MazdaTokenExpiredException"
    ELSE "MazdaException"

(* lines 185-190: the exception a non-success answer raises *)
Classify(errorCode) ==
    IF errorCode = 600001 THEN "MazdaAPIEncryptionException"
    ELSE IF errorCode = 600002 THEN "MazdaTokenExpiredException"
    ELSE "MazdaException"

(* lines 248-259 with the assignments ahead of the status checks *)
LoginStores_BeforeChecks(status) == TRUE

(* lines 250-259: the token is stored only past the three status checks *)
LoginStores(status) == status = "OK"

(* lines 250-255 without the two specific checks *)
LoginFailure_GenericOnly(status) ==
    IF status # "OK" THEN "LoginFailed" ELSE "none"

(* lines 250-255 *)
LoginFailure(status) ==
    CASE status = "INVALID_CREDENTIAL" -> "Authentication"
      [] status = "USER_LOCKED" -> "AccountLocked"
      [] status # "OK" -> "LoginFailed"
      [] OTHER -> "none"

(* lines 180-184 storing the keys of every checkVersion answer *)
IssuedByRetrieveKeys_AnyCheckVersion(stack) ==
    stack[Len(stack)].uri = CHECK_VERSION

(* a __retrieve_keys that returns without lines 205-206 *)
IssuedByRetrieveKeys_Never(stack) == FALSE

(* lines 202-206: the response of a checkVersion request goes to
   __retrieve_keys, which stores the keys, exactly when __retrieve_keys
   issued the request, i.e. when the frame is not the caller's own *)
IssuedByRetrieveKeys(stack) == Len(stack) > 1

---------------------------------------------------------------------------
(* The synchronous runs between two awaits, on a configuration
   c = [tk: the caller's record, enc, sign, tok, exp: the session fields] *)

Config(t) ==
    [tk |-> task[t], enc |-> enc_key, sign |-> sign_key,
     tok |-> access_token, exp |-> access_token_expiration_ts,
     rej |-> rejected]

Top(c) == c.tk.stack[Len(c.tk.stack)]

SetTop(c, f) == [c EXCEPT !.tk.stack[Len(c.tk.stack)] = f]

Frame(method, uri, qb, needs_keys, needs_auth) ==
    [method |-> method, uri |-> uri, qb |-> qb, needs_keys |-> needs_keys,
     needs_auth |-> needs_auth, num_retries |-> 0, pc |-> "start"]

(* an exception that no handler catches: it reaches the caller *)
Raise(c, err) ==
    [c EXCEPT !.tk.st = "done", !.tk.stack = <<>>, !.tk.lpc = "none",
              !.tk.result = err]

(* the caller's own call returns value *)
ReturnToCaller(c, value) ==
    [c EXCEPT !.tk.st = "done", !.tk.stack = <<>>, !.tk.lpc = "none",
              !.tk.result = "ok", !.tk.retval = value]

(* lines 208-223: login() starts by requesting the public key; from is the
   place it was called from *)
StartLogin(c, from) ==
    LET c1 == IF c.tk.stack = <<>> THEN c
              ELSE SetTop(c, [Top(c) EXCEPT !.pc = from])
    IN [c1 EXCEPT !.tk.lpc = "key",
                  !.tk.loginCalls = @ + 1,
                  !.tk.usherSent = @ + 1]

(* lines 123-176: __send_api_request up to the await of line 176 *)
SendApiRequest(c) ==
    LET f == Top(c)
        root == Len(c.tk.stack) = 1
    IN IF RetryMessageRaises(f.num_retries) THEN Raise(c, "TypeError")
       ELSE IF BuildRaisesMissingKey(f, c.enc, c.sign)
            THEN Raise(c, "MissingKey")
       ELSE LET c1 == SetTop(c, [f EXCEPT !.pc = "wait"])
            IN IF root
               THEN LET hdr == AccessTokenHeader(f.needs_auth, c.tok)
                        first == c.tk.rootSent = 0
                    IN [c1 EXCEPT
                          !.tk.rootSent = @ + 1,
                          !.tk.sentHdr = hdr,
                          !.tk.sentEnc = c.enc,
                          !.tk.sentSign = c.sign,
                          !.tk.sentTokValid =
                              /\ c.tok # None /\ c.exp # None
                              /\ TsValue(c.exp) > now,
                          !.tk.firstHdr = IF first THEN hdr ELSE @,
                          !.tk.firstLogins =
                              IF first THEN c.tk.loginCalls ELSE @,
                          !.tk.firstLoginTok =
                              IF first THEN c.tk.loginTok ELSE @]
               ELSE [c1 EXCEPT !.tk.cvSent = @ + 1]

(* lines 120-121 and 196-198 *)
EnsureTokenIsValid(c) ==
    IF Top(c).needs_auth /\ TokenInvalid(c.tok, c.exp, now)
    THEN StartLogin(c, "ensure_token")
    ELSE SendApiRequest(c)

RECURSIVE ApiRequestRetry(_)

(* lines 200-202 and 111-112: __retrieve_keys calls api_request for
   checkVersion with a counter of its own; from is the place that called
   __retrieve_keys *)
RetrieveKeys(c, from) ==
    LET c1 == SetTop(c, [Top(c) EXCEPT !.pc = from])
        c2 == [c1 EXCEPT
                 !.tk.rkCalls = @ + 1,
                 !.tk.stack = Append(@, Frame("POST", CHECK_VERSION, FALSE,
                                               FALSE, FALSE))]
    IN ApiRequestRetry(c2)

(* lines 118-119 and 192-194 *)
EnsureKeysPresent(c) ==
    IF Top(c).needs_keys /\ KeysAbsent(c.enc, c.sign)
    THEN RetrieveKeys(c, "ensure_keys")
    ELSE EnsureTokenIsValid(c)

(* lines 114-116 *)
ApiRequestRetry(c) ==
    IF RetryExceeded(Top(c).num_retries)
    THEN Raise(c, "MaxRetries")
    ELSE EnsureKeysPresent(c)

(* lines 131 and 135: the retry after a recovery *)
Retry(c) ==
    ApiRequestRetry(
        SetTop([c EXCEPT !.tk.recOK = @ + 1],
               [Top(c) EXCEPT !.num_retries = @ + 1]))

(* lines 205-206 guarded so that keys already stored are kept: the first
   of two racing key retrievals would win *)
StoreKeys_IfAbsent(c, response) ==
    IF c.enc = None /\ c.sign = None
    THEN [c EXCEPT !.enc = response.encKey, !.sign = response.signKey,
                   !.rej = FALSE]
    ELSE c

(* lines 205-206: the two assignments, in their order; response["signKey"]
   raises KeyError when the field is missing, after enc_key is assigned *)
StoreKeys(c, response) ==
    LET c1 == [c EXCEPT !.enc = response.encKey, !.rej = FALSE]
    IN IF "signKey" \in DOMAIN response
       THEN [c1 EXCEPT !.sign = response.signKey]
       ELSE c1

(* an api_request frame returns value: to the caller, or to the
   __retrieve_keys that issued it (lines 203-206), which stores the keys
   and returns to line 119 or to line 131 *)
ReturnValue(c, value) ==
    LET stores == IssuedByRetrieveKeys(c.tk.stack)
        c1 == IF stores THEN StoreKeys(c, value) ELSE c
    IN IF stores /\ "signKey" \notin DOMAIN value
       THEN Raise(c1, "KeyError")
       ELSE IF Len(c.tk.stack) = 1
       THEN ReturnToCaller(c1, value)
       ELSE LET c2 == [c1 EXCEPT !.tk.stack = SubSeq(@, 1, Len(@) - 1)]
            IN IF Top(c2).pc = "ensure_keys"
               THEN EnsureTokenIsValid(c2)
               ELSE Retry(c2)

(* the 600001 answers a request that the stored pair encrypted and signed *)
Rejects(c, f) ==
    \/ c.rej
    \/ /\ ~IsCheckVersion(f.uri)
       /\ c.tk.sentEnc = c.enc
       /\ c.tk.sentSign = c.sign

(* lines 178-190 with the handlers of lines 128-135 *)
HandleResponse(c, r) ==
    LET f == Top(c)
    IN IF r.state = "S"
       THEN IF IsCheckVersion(f.uri)
            THEN LET d == DecryptPayloadUsingAppCode(r.payload)
                 IN IF ~d.ok THEN Raise(c, "DecodeError")
                    ELSE ReturnValue(c, d.value)
            ELSE IF c.enc = None THEN Raise(c, "MissingKey")
            ELSE LET d == DecryptPayloadUsingKey(r.payload, c.enc)
                     c1 == [c EXCEPT !.tk.decKey = c.enc]
                 IN IF ~d.ok THEN Raise(c1, "DecodeError")
                    ELSE ReturnValue(c1, d.value)
       ELSE IF Classify(r.errorCode) = "MazdaAPIEncryptionException"
            THEN RetrieveKeys([c EXCEPT !.tk.recoveries = @ + 1,
                                        !.rej = Rejects(c, f)],
                              "recover_keys")
       ELSE IF Classify(r.errorCode) = "MazdaTokenExpiredException"
            THEN StartLogin([c EXCEPT !.tk.recoveries = @ + 1],
                            "recover_token")
       ELSE Raise(c, "Unknown")

(* lines 258-259: the two assignments, in their order;
   ["accessTokenExpirationTs"] raises KeyError when the field is missing,
   after access_token is assigned *)
StoreToken(c, tok, exp) ==
    LET c1 == [c EXCEPT !.tok = tok, !.tk.loginTok = tok]
    IN IF exp = Missing THEN c1 ELSE [c1 EXCEPT !.exp = exp]

(* lines 248-259, and the return of login() to its caller *)
HandleLoginResponse(c, status, tok, exp) ==
    LET c0 == IF LoginStores(status) THEN StoreToken(c, tok, exp) ELSE c
    IN IF LoginFailure(status) # "none"
       THEN Raise(c0, LoginFailure(status))
       ELSE IF exp = Missing THEN Raise(c0, "KeyError")
       ELSE LET c1 == [c0 EXCEPT !.tk.lpc = "none"]
            IN IF c1.tk.stack = <<>> THEN ReturnToCaller(c1, None)
               ELSE IF Top(c1).pc = "ensure_token" THEN SendApiRequest(c1)
               ELSE Retry(c1)

---------------------------------------------------------------------------
(* Actions: one per resumption of a coroutine *)

InFlight(tk) == tk.st = "run" /\ tk.rootSent > Len(tk.resps)

Commit(t, c) ==
    /\ Len(c.tk.stack) <= MaxDepth
    /\ task' = [u \in Tasks |->
                  IF u = t THEN c.tk
                  ELSE IF InFlight(task[u])
                          /\ (c.enc # enc_key \/ c.sign # sign_key)
                       THEN [task[u] EXCEPT !.overwritten = TRUE]
                       ELSE task[u]]
    /\ rejected' = c.rej
    /\ enc_key' = c.enc
    /\ sign_key' = c.sign
    /\ access_token' = c.tok
    /\ access_token_expiration_ts' = c.exp
    /\ UNCHANGED now

Event(t, kind, state, errorCode, status, depth) ==
    [t |-> t, kind |-> kind, state |-> state, errorCode |-> errorCode,
     status |-> status, depth |-> depth]

(* lines 111-112: a caller awaits api_request(...); the coroutine runs to
   its first await or to its end *)
ApiRequest(t, method, uri, qb, needs_keys, needs_auth) ==
    /\ task[t].st = "idle"
    /\ LET tk0 == [IdleTask EXCEPT
                     !.st = "run",
                     !.req = [op |-> "api_request", method |-> method,
                              uri |-> uri, qb |-> qb,
                              needs_keys |-> needs_keys,
                              needs_auth |-> needs_auth],
                     !.stack = <<Frame(method, uri, qb, needs_keys,
                                       needs_auth)>>,
                     !.keysAbsentAtIssue =
                         enc_key = None \/ sign_key = None,
                     !.expiredAtIssue =
                         /\ access_token_expiration_ts # None
                         /\ TsValue(access_token_expiration_ts) < now]
       IN Commit(t, ApiRequestRetry([Config(t) EXCEPT !.tk = tk0]))
    /\ ev' = Event(t, "api_request", "none", 0, "none", 0)

(* line 208: a caller awaits login() *)
Login(t) ==
    /\ task[t].st = "idle"
    /\ LET tk0 == [IdleTask EXCEPT
                     !.st = "run",
                     !.req = [NoRequest EXCEPT !.op = "login"]]
       IN Commit(t, StartLogin([Config(t) EXCEPT !.tk = tk0], "caller"))
    /\ ev' = Event(t, "login_call", "none", 0, "none", 0)

(* lines 176-178: the main API host answers the request of the top frame *)
MainResponse(t, r) ==
    /\ task[t].st = "run"
    /\ task[t].lpc = "none"
    /\ task[t].stack # <<>>
    /\ Top(Config(t)).pc = "wait"
    /\ LET depth == Len(task[t].stack)
           code == IF r.state = "S" THEN 0 ELSE r.errorCode
           first == depth = 1 /\ task[t].resps = <<>>
           c0 == [Config(t) EXCEPT
                    !.tk.resps = IF depth = 1 THEN Append(@, code) ELSE @,
                    !.tk.atResp =
                        IF depth = 1
                        THEN <<enc_key, sign_key, access_token,
                               access_token_expiration_ts>>
                        ELSE @,
                    !.tk.rk1 = IF first THEN task[t].rkCalls ELSE @,
                    !.tk.lg1 = IF first THEN task[t].loginCalls ELSE @,
                    !.tk.lastPayload =
                        IF r.state = "S" THEN r.payload ELSE @]
       IN /\ Commit(t, HandleResponse(c0, r))
          /\ ev' = Event(t, "main", r.state, code, "none", depth)

(* lines 211-232: the authentication host returns the public key and
   login() sends the login request *)
LoginKeyResponse(t) ==
    /\ task[t].st = "run"
    /\ task[t].lpc = "key"
    /\ Commit(t, [Config(t) EXCEPT !.tk.lpc = "login",
                                   !.tk.usherSent = @ + 1])
    /\ ev' = Event(t, "key", "none", 0, "none", Len(task[t].stack))

(* lines 232-259: the authentication host answers the login request *)
LoginResponse(t, status, tok, exp) ==
    /\ task[t].st = "run"
    /\ task[t].lpc = "login"
    /\ Commit(t, HandleLoginResponse(Config(t), status, tok, exp))
    /\ ev' = Event(t, "login", "none", 0, status, Len(task[t].stack))

(* the caller's await completes: it takes the value or the exception *)
Resume(t) ==
    /\ task[t].st = "done"
    /\ task' = [task EXCEPT ![t] = IdleTask]
    /\ ev' = NoEvent
    /\ UNCHANGED <<enc_key, sign_key, access_token,
                   access_token_expiration_ts, now, rejected>>

(* time.time() advances *)
Tick ==
    /\ now < MaxTime
    /\ now' = now + 1
    /\ UNCHANGED <<enc_key, sign_key, access_token,
                   access_token_expiration_ts, task, ev, rejected>>

(* the answers the main API host can give to the request t awaits *)
Answers(t) ==
    IF task[t].stack # <<>> /\ task[t].lpc = "none"
    THEN Responses(Top(Config(t)).uri)
    ELSE {}

CallerStep(t) ==
    \/ \E method \in Methods, uri \in Uris, qb \in BOOLEAN,
          needs_keys \in BOOLEAN, needs_auth \in BOOLEAN :
          ApiRequest(t, method, uri, qb, needs_keys, needs_auth)
    \/ Login(t)
    \/ \E r \in Answers(t) : MainResponse(t, r)
    \/ LoginKeyResponse(t)
    \/ \E i \in 1..MaxTokens, e \in ExpValues :
          LoginResponse(t, "OK", TokenOf(i), Ts(e))
    \/ \E status \in LoginStatuses \ {"OK"} :
          LoginResponse(t, status, None, None)
    \/ Resume(t)

(* one caller at a time, as the design assumes *)
Next == Tick \/ \E t \in SeqTasks : CallerStep(t)

Spec == Init /\ [][Next]_vars

(* the main API host answers a checkVersion request with a payload that
   decrypts to a JSON object without "signKey" *)
PartialKeysResponse(t, k) ==
    /\ task[t].stack # <<>>
    /\ Top(Config(t)).uri = CHECK_VERSION
    /\ MainResponse(t, [state |-> "S",
                        payload |-> [key |-> AppCodeKey,
                                     content |-> PartialKeyObject(k)],
                        errorCode |-> 0])

(* the authentication host answers "OK" with data that lacks
   "accessTokenExpirationTs" *)
PartialLoginResponse(t, i) == LoginResponse(t, "OK", TokenOf(i), Missing)

(* one caller at a time, and a server whose answers may lack a field *)
NextFull ==
    \/ Next
    \/ \E t \in SeqTasks, k \in 1..MaxKeys : PartialKeysResponse(t, k)
    \/ \E t \in SeqTasks, i \in 1..MaxTokens : PartialLoginResponse(t, i)

SpecFull == Init /\ [][NextFull]_vars

(* the answers of a main API host that serves checkVersion as specified:
   with the key object encrypted under the app-code key, or with an error
   other than the two codes that concern session keys and tokens *)
ConcAnswers(t) ==
    {r \in Answers(t) :
        IsCheckVersion(Top(Config(t)).uri) =>
            IF r.state = "S" THEN r.payload.key = AppCodeKey
            ELSE r.errorCode \notin {600001, 600002}}

(* a step of one of two callers whose calls overlap on one Connection:
   each makes one call for a business URI with needs_keys=True; the
   clock stands still and a login that succeeds returns an expiration in
   the future *)
ConcStep(t) ==
    \/ \E qb \in BOOLEAN, needs_auth \in BOOLEAN :
          ApiRequest(t, "POST", OTHER_URI, qb, TRUE, needs_auth)
    \/ \E r \in ConcAnswers(t) : MainResponse(t, r)
    \/ LoginKeyResponse(t)
    \/ \E i \in 1..MaxTokens :
          LoginResponse(t, "OK", TokenOf(i), Ts(MaxTime + 1))
    \/ \E status \in LoginStatuses \ {"OK"} :
          LoginResponse(t, status, None, None)

NextConc == \E t \in Tasks : ConcStep(t)

SpecConc == Init /\ [][NextConc]_vars

---------------------------------------------------------------------------
(* Properties *)

(* the failures a server answer, a credential or a missing key causes *)
TerminalResults ==
    {"Unknown", "DecodeError", "MissingKey", "Authentication",
     "AccountLocked", "LoginFailed"}

Alternating == <<600001, 600002, 600001, 600002>>

IsPrefix(s, q) ==
    /\ Len(s) <= Len(q)
    /\ \A i \in 1..Len(s) : s[i] = q[i]

IsApiRequest(tk) == tk.req.op = "api_request"

(* this step delivers an answer of the main API host to t *)
Answered(t) ==
    /\ task[t].st = "run" /\ task[t].lpc = "none"
    /\ ev'.t = t /\ ev'.kind = "main"
    /\ Len(task[t].stack) = ev'.depth
    /\ task'[t] # task[t]

(* this step delivers the answer to the login request of t *)
LoginAnswered(t) ==
    /\ task[t].st = "run" /\ task[t].lpc = "login"
    /\ ev'.t = t /\ ev'.kind = "login"
    /\ task'[t] # task[t]

(* C1: a call whose attempts are answered 600001, 600002, 600001, 600002,
   each recovery succeeding, is not ended by anything but the exhausted
   retry budget: it ends after exactly four requests for its URI with
   "Request exceeded max number of retries". *)
C1_RetryBudget ==
    \A t \in Tasks :
        LET tk == task[t]
        IN IsApiRequest(tk) =>
           /\ ( /\ tk.st = "done"
                /\ tk.resps # <<>>
                /\ IsPrefix(tk.resps, Alternating)
                /\ tk.recOK = Len(tk.resps)
                /\ tk.result \notin TerminalResults )
              => (tk.resps = Alternating /\ tk.result = "MaxRetries")
           /\ ( /\ Len(tk.resps) >= 4
                /\ SubSeq(tk.resps, 1, 4) = Alternating
                /\ tk.recOK >= 4 )
              => (tk.rootSent = 4 /\ tk.st = "done"
                  /\ tk.result = "MaxRetries")

(* C2: once a recovery after 600001 or 600002 has succeeded, the call ends
   only with the value of a following attempt, or with a terminal failure
   or the exhausted budget: no other exception reaches the caller. *)
C2_TransparentRecovery ==
    \A t \in Tasks :
        LET tk == task[t]
        IN ( /\ IsApiRequest(tk)
             /\ tk.st = "done"
             /\ tk.recOK >= 1
             /\ tk.result \notin TerminalResults \cup {"MaxRetries"} )
           => (tk.result = "ok" /\ tk.rootSent >= 2
               /\ tk.retval = tk.lastPayload.content)

(* C3: after a first answer 600001 and until the second attempt is
   answered, key retrieval has been invoked at most once and login not at
   all; and once that key retrieval has returned, the second attempt is
   sent, with exactly one key retrieval before it. *)
C3_OneKeyRetrievalBeforeRetry ==
    \A t \in Tasks :
        LET tk == task[t]
        IN ( /\ IsApiRequest(tk)
             /\ Len(tk.resps) = 1
             /\ tk.resps[1] = 600001 )
           => /\ tk.rkCalls <= tk.rk1 + 1
              /\ tk.loginCalls = tk.lg1
              /\ (tk.recOK >= 1 /\ tk.result \notin TerminalResults)
                 => (tk.rootSent = 2 /\ tk.rkCalls = tk.rk1 + 1)

KeyObjects == {KeyObject(k) : k \in 1..MaxKeys}

(* the caller's call of C4: api_request(method, "service/checkVersion", {},
   {}, needs_keys=False, needs_auth=False) *)
IsCheckVersionCall(tk) ==
    /\ IsApiRequest(tk)
    /\ tk.req.uri = CHECK_VERSION
    /\ ~tk.req.qb /\ ~tk.req.needs_keys /\ ~tk.req.needs_auth

(* C4 as claimed: a caller's checkVersion call that returns {encKey: e,
   signKey: s} leaves the session with enc_key = e and sign_key = s. *)
C4_CheckVersionPopulatesKeys ==
    \A t \in Tasks :
        LET tk == task[t]
        IN (IsCheckVersionCall(tk) /\ tk.st = "done" /\ tk.result = "ok")
           => /\ tk.retval \in KeyObjects
              /\ enc_key = tk.retval.encKey
              /\ sign_key = tk.retval.signKey

(* C4 as amended: the step in which a caller's checkVersion call receives
   a state "S" answer that decrypts under the app-code key returns the
   decrypted object and leaves enc_key and sign_key as they were; the same
   answer to the checkVersion request of __retrieve_keys stores its encKey
   and signKey. *)
C4_CheckVersionReturnsKeys ==
    [][\A t \in Tasks :
          ( /\ Answered(t) /\ ev'.state = "S"
            /\ task'[t].lastPayload.key = AppCodeKey
            /\ task[t].stack[ev'.depth].uri = CHECK_VERSION )
          => IF ev'.depth = 1
             THEN /\ task'[t].st = "done"
                  /\ task'[t].result = "ok"
                  /\ task'[t].retval = task'[t].lastPayload.content
                  /\ enc_key' = enc_key
                  /\ sign_key' = sign_key
             ELSE /\ enc_key' = task'[t].lastPayload.content.encKey
                  /\ sign_key' = task'[t].lastPayload.content.signKey
      ]_vars

C4_Witness ==
    \E t \in Tasks :
        /\ IsCheckVersionCall(task[t])
        /\ task[t].result = "ok"
        /\ task[t].retval \in KeyObjects
        /\ enc_key # task[t].retval.encKey

(* C5: when api_request with needs_auth=True is issued while the stored
   expiration is in the past, exactly one login has been invoked when the
   request is sent to the main API host, and the access-token header of
   the request is the token that login returned. *)
C5_ExpiredTokenLoginOnce ==
    \A t \in Tasks :
        LET tk == task[t]
        IN ( /\ IsApiRequest(tk)
             /\ tk.req.needs_auth
             /\ tk.expiredAtIssue
             /\ tk.rootSent >= 1 )
           => /\ tk.firstLogins = 1
              /\ tk.firstLoginTok # None
              /\ tk.firstHdr = tk.firstLoginTok

C5_Witness ==
    \E t \in Tasks :
        /\ IsApiRequest(task[t])
        /\ task[t].req.needs_auth
        /\ task[t].expiredAtIssue
        /\ task[t].rootSent = 1
        /\ task[t].firstHdr = access_token
        /\ task[t].firstHdr # None

(* C6: the step in which a login receives a status other than "OK" raises
   the failure of that status and leaves access_token and
   access_token_expiration_ts as they were. *)
C6_FailedLoginKeepsToken ==
    [][\A t \in Tasks :
          (LoginAnswered(t) /\ ev'.status # "OK")
          => /\ access_token' = access_token
             /\ access_token_expiration_ts' = access_token_expiration_ts
             /\ task'[t].st = "done"
             /\ task'[t].result =
                   CASE ev'.status = "INVALID_CREDENTIAL" -> "Authentication"
                     [] ev'.status = "USER_LOCKED" -> "AccountLocked"
                     [] OTHER -> "LoginFailed"
      ]_vars

(* a login() on a fresh Connection answered INVALID_CREDENTIAL *)
C6_Witness ==
    \E t \in Tasks :
        /\ ev.t = t /\ ev.kind = "login"
        /\ ev.status = "INVALID_CREDENTIAL"
        /\ task[t].req.op = "login"
        /\ task[t].result = "Authentication"
        /\ access_token = None

(* the requests and invocations a call has made *)
Effort(tk) ==
    <<tk.rootSent, tk.cvSent, tk.usherSent, tk.rkCalls, tk.loginCalls>>

(* C7: the step in which a login made inside an api_request call reports
   INVALID_CREDENTIAL or USER_LOCKED ends the call with the authentication
   resp. account-locked failure and sends nothing; an ended call sends
   nothing more. *)
C7_AuthFailureTerminal ==
    [][\A t \in Tasks :
          /\ ( /\ LoginAnswered(t)
               /\ ev'.status \in {"INVALID_CREDENTIAL", "USER_LOCKED"}
               /\ IsApiRequest(task[t]) )
             => /\ task'[t].st = "done"
                /\ task'[t].result =
                      (IF ev'.status = "INVALID_CREDENTIAL"
                       THEN "Authentication" ELSE "AccountLocked")
                /\ Effort(task'[t]) = Effort(task[t])
          /\ (task[t].st = "done" /\ task'[t].st = "done")
             => Effort(task'[t]) = Effort(task[t])
      ]_vars

(* a login started by the 600002 recovery reported USER_LOCKED *)
C7_Witness ==
    \E t \in Tasks :
        /\ ev.t = t /\ ev.kind = "login" /\ ev.status = "USER_LOCKED"
        /\ IsApiRequest(task[t])
        /\ task[t].result = "AccountLocked"
        /\ task[t].recoveries = 1
        /\ task[t].resps = <<600002>>

(* C8: the step in which a request is answered with a state other than
   "S" and an errorCode other than 600001 and 600002 ends the call with
   the generic failure, invokes neither key retrieval nor login, sends
   nothing and leaves the four session fields as they were. *)
C8_UnknownErrorImmediate ==
    [][\A t \in Tasks :
          ( /\ Answered(t) /\ ev'.state # "S"
            /\ ev'.errorCode \notin {600001, 600002} )
          => /\ task'[t].st = "done"
             /\ task'[t].result = "Unknown"
             /\ Effort(task'[t]) = Effort(task[t])
             /\ enc_key' = enc_key
             /\ sign_key' = sign_key
             /\ access_token' = access_token
             /\ access_token_expiration_ts' = access_token_expiration_ts
      ]_vars

C8_Witness ==
    \E t \in Tasks :
        /\ ev.t = t /\ ev.kind = "main" /\ ev.errorCode = 500
        /\ ev.depth = 1
        /\ task[t].result = "Unknown"
        /\ task[t].req.uri = OTHER_URI
        /\ task[t].rootSent = 1
        /\ enc_key # None

(* C9: the recoveries (key retrievals and logins started by the handlers
   of lines 128-135) of one api_request call, those made while the call is
   retrieving keys included, are bounded by the attempt counter: there is
   at most one per attempt 0 .. MAX_RETRIES. *)
C9_RecoveriesBoundedByCounter ==
    \A t \in Tasks :
        IsApiRequest(task[t]) => task[t].recoveries <= MAX_RETRIES + 1

(* C10: the checkVersion request of __retrieve_keys starts no further key
   retrieval and no login: below the caller's request there is at most
   one checkVersion request, and it awaits nothing but its answer. *)
C10_KeyRetrievalNotRecursive ==
    \A t \in Tasks :
        /\ Len(task[t].stack) <= 2
        /\ Len(task[t].stack) = 2 => task[t].lpc = "none"

---------------------------------------------------------------------------
(* Properties of the session state *)

(* C11: enc_key and sign_key are both unset or both set, and when set
   they are the encKey and the signKey of one key-retrieval response. *)
C11_KeysSetTogether ==
    /\ (enc_key = None) <=> (sign_key = None)
    /\ enc_key # None =>
          \E k \in 1..MaxKeys :
              enc_key = EncKeyOf(k) /\ sign_key = SignKeyOf(k)

(* the call of tk is handling an answer errorCode to its own request: the
   answer has arrived and no further request for the URI has been sent *)
Handling(tk, errorCode) ==
    /\ IsApiRequest(tk)
    /\ tk.resps # <<>>
    /\ tk.resps[Len(tk.resps)] = errorCode
    /\ tk.rootSent = Len(tk.resps)

(* C12: from a 600001 answer until the next attempt is sent or the call
   fails, access_token and access_token_expiration_ts keep the values they
   had when the answer arrived; from a 600002 answer on, enc_key and
   sign_key keep theirs. *)
C12_IndependentLifecycles ==
    \A t \in Tasks :
        /\ Handling(task[t], 600001) =>
              /\ access_token = task[t].atResp[3]
              /\ access_token_expiration_ts = task[t].atResp[4]
        /\ Handling(task[t], 600002) =>
              /\ enc_key = task[t].atResp[1]
              /\ sign_key = task[t].atResp[2]

(* C12, amended: no answer of the main API host writes the token fields,
   no answer of the authentication host writes the keys, the keys stay as
   they were while a 600002 answer is handled, and the token fields change
   while a 600001 answer is handled only by a login made after the
   answer. *)
C12_StoresAreSeparate ==
    [][\A t \in Tasks :
          /\ Answered(t) =>
                UNCHANGED <<access_token, access_token_expiration_ts>>
          /\ LoginAnswered(t) => UNCHANGED <<enc_key, sign_key>>
          /\ Handling(task'[t], 600002) =>
                /\ enc_key' = task'[t].atResp[1]
                /\ sign_key' = task'[t].atResp[2]
          /\ ( /\ Handling(task'[t], 600001)
               /\ \/ access_token' # task'[t].atResp[3]
                  \/ access_token_expiration_ts' # task'[t].atResp[4] )
             => /\ task'[t].loginCalls > task'[t].lg1
                /\ access_token' = task'[t].loginTok]_vars

C12_Witness ==
    \E t \in Tasks :
        /\ Handling(task[t], 600002)
        /\ task[t].st = "done"
        /\ task[t].recOK = 1
        /\ enc_key # None
        /\ access_token # task[t].atResp[3]

(* the failures of a login *)
LoginFailures == {"Authentication", "AccountLocked", "LoginFailed", "KeyError"}

IsBusinessRequest(tk) == IsApiRequest(tk) /\ ~IsCheckVersion(tk.req.uri)

(* C13: a GET or POST request for a URI other than checkVersion is sent
   only with enc_key and sign_key set, after the key retrieval when
   needs_keys=True; with needs_keys=False and a key absent the call has
   failed with the missing-key error and nothing has been transmitted. *)
C13_NoRequestWithoutKeys ==
    \A t \in Tasks :
        LET tk == task[t]
        IN IsBusinessRequest(tk) =>
           /\ tk.rootSent >= 1 =>
                 /\ tk.sentEnc # None /\ tk.sentSign # None
                 /\ (tk.req.needs_keys /\ tk.keysAbsentAtIssue)
                       => tk.rkCalls >= 1
           /\ (~tk.req.needs_keys /\ tk.keysAbsentAtIssue) =>
                 /\ tk.st = "done" /\ tk.result = "MissingKey"
                 /\ tk.rootSent = 0 /\ tk.cvSent = 0 /\ tk.usherSent = 0

(* C13, amended: the same for the requests sent; with needs_keys=False and
   a key absent nothing is sent to the main API host, and the call fails
   with the missing-key error, at once when needs_auth=False, after the
   login of the token check (or with that login's failure) when
   needs_auth=True. *)
C13_KeysBeforeRequest ==
    \A t \in Tasks :
        LET tk == task[t]
        IN IsBusinessRequest(tk) =>
           /\ tk.rootSent >= 1 =>
                 /\ tk.sentEnc # None /\ tk.sentSign # None
                 /\ (tk.req.needs_keys /\ tk.keysAbsentAtIssue)
                       => tk.rkCalls >= 1
           /\ (~tk.req.needs_keys /\ tk.keysAbsentAtIssue) =>
                 /\ tk.rootSent = 0 /\ tk.cvSent = 0
                 /\ tk.st = "done" =>
                       tk.result \in {"MissingKey"} \cup LoginFailures
                 /\ tk.st # "done" => tk.lpc # "none"
                 /\ (~tk.req.needs_auth \/ tk.loginCalls = 0) =>
                       /\ tk.st = "done" /\ tk.result = "MissingKey"
                       /\ tk.usherSent = 0

C13_Witness ==
    \E t \in Tasks :
        /\ IsBusinessRequest(task[t])
        /\ ~task[t].req.needs_keys /\ task[t].req.needs_auth
        /\ task[t].keysAbsentAtIssue
        /\ enc_key # None /\ sign_key = None
        /\ task[t].loginCalls = 1 /\ task[t].usherSent = 2
        /\ task[t].st = "done" /\ task[t].result = "MissingKey"

(* C14: a request sent with needs_auth=True carries a set token whose
   stored expiration is later than the time of sending; a request sent
   with needs_auth=False carries the empty header. *)
C14_ValidTokenSent ==
    \A t \in Tasks :
        LET tk == task[t]
        IN (IsApiRequest(tk) /\ tk.rootSent >= 1) =>
           IF tk.req.needs_auth
           THEN /\ tk.sentHdr \in {TokenOf(i) : i \in 1..MaxTokens}
                /\ tk.sentTokValid
           ELSE tk.sentHdr = EmptyHeader

(* C14, amended: a request sent with needs_auth=True carries the stored
   token, which is set; its expiration is later than the time of sending
   unless the token is the one a login made by the same call just
   stored. *)
C14_StoredTokenSent ==
    \A t \in Tasks :
        LET tk == task[t]
        IN (IsApiRequest(tk) /\ tk.rootSent >= 1) =>
           IF tk.req.needs_auth
           THEN /\ tk.sentHdr \in {TokenOf(i) : i \in 1..MaxTokens}
                /\ \/ tk.sentTokValid
                   \/ /\ tk.rootSent = 1
                      /\ tk.firstLogins >= 1
                      /\ tk.sentHdr = tk.firstLoginTok
           ELSE tk.sentHdr = EmptyHeader

C14_Witness ==
    \E t \in Tasks :
        /\ IsApiRequest(task[t]) /\ task[t].req.needs_auth
        /\ task[t].rootSent = 1
        /\ ~task[t].sentTokValid
        /\ task[t].firstLogins = 1
        /\ task[t].sentHdr = access_token
        /\ access_token_expiration_ts # None
        /\ TsValue(access_token_expiration_ts) <= now

(* this step is the call of api_request by t, up to its first await *)
Issued(t) ==
    /\ task[t].st = "idle"
    /\ ev'.t = t /\ ev'.kind = "api_request"
    /\ task'[t] # task[t]

(* this step delivers to t the key object that ends a key retrieval, and
   runs the ensure steps of the frame that asked for it: the token check
   after __ensure_keys_present, both checks in the retry of line 131 *)
KeysReturned(t) ==
    /\ Answered(t)
    /\ Len(task[t].stack) >= 2
    /\ ev'.state = "S"
    /\ task'[t].lastPayload.key = AppCodeKey
    /\ task'[t].lastPayload.content \in KeyObjects

(* this step delivers to t the "OK" answer that ends the login of line
   134, and runs the ensure steps of the retry of line 135 *)
LoginRecovered(t) ==
    /\ LoginAnswered(t)
    /\ ev'.status = "OK"
    /\ task'[t].result # "KeyError"
    /\ task[t].stack # <<>>
    /\ task[t].stack[Len(task[t].stack)].pc = "recover_token"

Bit(b) == IF b THEN 1 ELSE 0

(* the condition of C15 for a login, on the state before the step *)
TokenCheckFails ==
    \/ access_token = None
    \/ access_token_expiration_ts = None
    \/ now >= TsValue(access_token_expiration_ts)

(* C15: __ensure_keys_present sends a checkVersion request if and only if
   enc_key or sign_key is absent, __ensure_token_is_valid performs a login
   if and only if access_token or access_token_expiration_ts is absent or
   now >= access_token_expiration_ts; otherwise each sends nothing and
   leaves the four session fields as they are. *)
C15_EnsureOnlyWhenNeeded ==
    [][\A t \in Tasks :
          /\ Issued(t) =>
                LET tk == task'[t]
                    keys == tk.req.needs_keys
                            /\ (enc_key = None \/ sign_key = None)
                    login == tk.req.needs_auth /\ TokenCheckFails
                IN /\ UNCHANGED <<enc_key, sign_key, access_token,
                                  access_token_expiration_ts>>
                   /\ tk.rkCalls = Bit(keys) /\ tk.cvSent = Bit(keys)
                   /\ tk.loginCalls = Bit(~keys /\ login)
                   /\ tk.usherSent = Bit(~keys /\ login)
          /\ KeysReturned(t) =>
                LET asker == task[t].stack[Len(task[t].stack) - 1]
                    login == asker.needs_auth /\ TokenCheckFails
                IN /\ UNCHANGED <<access_token, access_token_expiration_ts>>
                   /\ task'[t].rkCalls = task[t].rkCalls
                   /\ task'[t].cvSent = task[t].cvSent
                   /\ task'[t].loginCalls = task[t].loginCalls + Bit(login)
                   /\ task'[t].usherSent = task[t].usherSent + Bit(login)
                   /\ (~login /\ asker.pc = "ensure_keys") =>
                         task'[t].rootSent + task'[t].cvSent
                            = task[t].rootSent + task[t].cvSent + 1
          /\ LoginRecovered(t) =>
                LET f == task[t].stack[Len(task[t].stack)]
                    keys == f.needs_keys
                            /\ (enc_key = None \/ sign_key = None)
                    login ==
                        /\ f.needs_auth
                        /\ \/ access_token' = None
                           \/ access_token_expiration_ts' = None
                           \/ now >= TsValue(access_token_expiration_ts')
                IN /\ UNCHANGED <<enc_key, sign_key>>
                   /\ task'[t].rkCalls = task[t].rkCalls + Bit(keys)
                   /\ task'[t].loginCalls
                         = task[t].loginCalls + Bit(~keys /\ login)]_vars

C15_Witness ==
    \E t \in Tasks :
        /\ ev.t = t /\ ev.kind = "api_request"
        /\ task[t].req.needs_keys /\ task[t].req.needs_auth
        /\ ~task[t].keysAbsentAtIssue
        /\ access_token # None /\ access_token_expiration_ts # None
        /\ TsValue(access_token_expiration_ts) > now
        /\ task[t].rootSent = 1
        /\ task[t].rkCalls = 0 /\ task[t].loginCalls = 0

(* C16: no request for a caller's URI goes out encrypted and signed with
   a key pair that the main API host has answered with 600001 since the
   pair was stored. *)
C16_RejectedKeysNeverUsed ==
    \A t \in Tasks :
        ( /\ IsBusinessRequest(task[t])
          /\ InFlight(task[t])
          /\ task[t].sentEnc = enc_key /\ task[t].sentSign = sign_key )
        => ~rejected

(* C16, amended: the answer to a key-retrieval request replaces the stored
   pair, rejected or not, exactly when it is a state "S" answer that
   decrypts to a key object; any other answer leaves the stored pair, and
   its rejection, in place. *)
C16_ReplacedOnlyBySuccessfulRetrieval ==
    [][\A t \in Tasks :
          (Answered(t) /\ Len(task[t].stack) >= 2) =>
             IF /\ ev'.state = "S"
                /\ task'[t].lastPayload.key = AppCodeKey
             THEN LET obj == task'[t].lastPayload.content
                  IN /\ enc_key' = obj.encKey
                     /\ ~rejected'
                     /\ IF obj \in KeyObjects
                        THEN sign_key' = obj.signKey
                        ELSE UNCHANGED sign_key
             ELSE UNCHANGED <<enc_key, sign_key, rejected>>]_vars

C16_Witness ==
    \E t \in Tasks :
        /\ Handling(task[t], 600001)
        /\ IsBusinessRequest(task[t])
        /\ task[t].recOK = 1
        /\ task[t].sentEnc = task[t].atResp[1]
        /\ enc_key # task[t].sentEnc
        /\ ~rejected

---------------------------------------------------------------------------
(* Properties of two overlapping calls *)

(* t has called __retrieve_keys (resp. login) and its request is out *)
RetrievingKeys(tk) ==
    /\ tk.st = "run" /\ tk.lpc = "none"
    /\ Len(tk.stack) >= 2
    /\ tk.stack[Len(tk.stack)].pc = "wait"

LoggingIn(tk) == tk.st = "run" /\ tk.lpc # "none"

(* C17: a call that finds the keys absent (resp. the token invalid)
   starts a key retrieval (resp. a login) of its own, whether or not
   another caller's is in flight, and every key retrieval (resp. login)
   that completes writes its result over what is stored, so the stored
   pair (resp. token) is that of the refresh that completed last. *)
C17_RacingRefresh ==
    [][\A t \in Tasks :
          /\ (Issued(t) /\ (enc_key = None \/ sign_key = None)) =>
                /\ task'[t].rkCalls = 1 /\ task'[t].cvSent = 1
                /\ RetrievingKeys(task'[t])
          /\ ( /\ Issued(t) /\ enc_key # None /\ sign_key # None
               /\ task'[t].req.needs_auth /\ TokenCheckFails ) =>
                /\ task'[t].loginCalls = 1 /\ task'[t].usherSent = 1
                /\ LoggingIn(task'[t])
          /\ ( /\ KeysReturned(t)
               /\ task[t].stack[Len(task[t].stack) - 1].needs_auth
               /\ TokenCheckFails ) =>
                /\ task'[t].loginCalls = task[t].loginCalls + 1
                /\ LoggingIn(task'[t])
          /\ KeysReturned(t) =>
                /\ enc_key' = task'[t].lastPayload.content.encKey
                /\ sign_key' = task'[t].lastPayload.content.signKey
          /\ (LoginAnswered(t) /\ ev'.status = "OK") =>
                /\ access_token' = task'[t].loginTok
                /\ access_token' # None
                /\ access_token_expiration_ts' # None]_vars

(* both callers found the keys absent, so each sent its checkVersion
   request before the other's was answered; both retrievals have
   completed, with different pairs, and the pair stored is the one of the
   second *)
C17_Witness ==
    \E t \in Tasks, u \in Tasks :
        /\ t # u
        /\ task[t].keysAbsentAtIssue /\ task[u].keysAbsentAtIssue
        /\ task[t].rkCalls = 1 /\ task[u].rkCalls = 1
        /\ InFlight(task[t]) /\ InFlight(task[u])
        /\ task[t].sentEnc = task[t].lastPayload.content.encKey
        /\ task[u].sentEnc = task[u].lastPayload.content.encKey
        /\ task[t].sentEnc # task[u].sentEnc
        /\ enc_key = task[u].sentEnc /\ sign_key = task[u].sentSign

(* C18: the key that decrypts the state "S" answer to a request for a
   business URI is the key that encrypted the request, also when other
   calls retrieve keys while the request is in flight. *)
C18_DecryptsWithRequestKey ==
    \A t \in Tasks :
        (IsBusinessRequest(task[t]) /\ task[t].decKey # None) =>
            task[t].decKey = task[t].sentEnc

(* C18, amended: the answer is decrypted with the enc_key stored when it
   arrives, and comes back only if that is the key the payload was
   encrypted under; this is the key that encrypted the request unless
   another caller stored keys while the request was in flight. *)
C18_DecryptsWithStoredKey ==
    \A t \in Tasks :
        LET tk == task[t]
        IN (IsBusinessRequest(tk) /\ tk.decKey # None) =>
           /\ tk.decKey = tk.atResp[1]
           /\ tk.st = "done"
           /\ (tk.result = "ok") <=> (tk.lastPayload.key = tk.decKey)
           /\ tk.result \in {"ok", "DecodeError"}
           /\ tk.decKey # tk.sentEnc => tk.overwritten

C18_Witness ==
    \E t \in Tasks :
        /\ IsBusinessRequest(task[t])
        /\ task[t].decKey # None
        /\ task[t].decKey # task[t].sentEnc
        /\ task[t].overwritten
        /\ task[t].result = "ok"

---------------------------------------------------------------------------
(* C19: access_token and access_token_expiration_ts are both unset or both
   set, they change only in the step that delivers an "OK" login answer,
   and once set they are not unset again. *)
C19_TokenSetTogether ==
    [][/\ (access_token' = None) <=> (access_token_expiration_ts' = None)
       /\ <<access_token, access_token_expiration_ts>>'
             # <<access_token, access_token_expiration_ts>>
          => \E t \in Tasks : LoginAnswered(t) /\ ev'.status = "OK"
       /\ access_token # None => access_token' # None
       /\ access_token_expiration_ts # None
             => access_token_expiration_ts' # None]_vars

====
